---------------------------- MODULE Spec2Model ----------------------------
(***************************************************************************)
(* Trip / fare state machine of the driver app's NavigationScreen          *)
(* (src/components/navigation/VoiceGuidance.tsx, lines 377-1279), and      *)
(* beside it the VoiceGuidance component with VoiceService, the            *)
(* LocationService, decodePolyline and the route-progress tracker, each    *)
(* with a specification of its own over the same variables.                *)
(*                                                                         *)
(* Units: distances are metres (the source holds kilometres as floats:     *)
(* 0.1 km = 100 m), money is MMK, time is seconds of Date.now().           *)
(* One action is one JavaScript callback run to completion, followed by    *)
(* React's commit of the batched state updates and the fare useEffect.     *)
(***************************************************************************)
EXTENDS Integers, Sequences, FiniteSets, TLC

\* ----------------------------------------------------------------- bounds
MaxTime == 15            \* the clock stops advancing here
TimeStep == 5            \* granularity of the clock
MaxCumulative == 1500    \* handlePriceAdd is not pressed beyond this total
MaxDistance == 300       \* a tick does not accumulate beyond this distance
MaxUndoTotal == 3000     \* UndoSpec: handlePriceAdd is not pressed beyond this
MaxPending == 7          \* UndoSpec: additions not yet undone or cleared
MaxInFlight == 2         \* VoiceService calls suspended at one time
MaxQueue == 2            \* utterances handed to the speech engine at one time
MaxStartCalls == 2       \* startLocationTracking calls suspended at one time
MaxSubscriptions == 3    \* position subscriptions created in one run
MaxPoints == 2           \* points of an encoded path
MaxInstructions == 3     \* instructions of a route
MaxCoord == 3            \* positions and anchors lie on 0..MaxCoord
MaxSessionInstructions == 1  \* SessionSpec: instructions of the route
MaxRouteCalls == 2       \* calculateRoute calls awaiting the provider

\* ---------------------------------------------------- program constants
BASE_FARE == 2000
FARE_RATE == 600
INITIAL_DISTANCE == 100
MAX_RECENT == 5
NULL == -1

PRICE_OPTIONS == {500, 1000, 2000, 5000}
DEMAND_OPTIONS == {500, 1000, 2000}
\* Math.random() * 0.1 + 0.05 km per update, on a 50 m grid
Increments == {50, 100, 150}
\* the props NavigationScreen hands to <DemandModal>
DemandModalPassedProps ==
    {"visible", "onClose", "onAdd", "onClear", "currentDemand", "baseFare",
     "currentDistance", "fareRate"}

Statuses == {"idle", "active", "resting", "completed"}

\* currentInstruction is null, lastSpokenInstruction is null
NoInstruction == "none"
\* route is null
NoRoute == [calculated |-> FALSE, instructions |-> <<>>]
\* no calculateRoute call has settled
NoRequest == [apiKey |-> TRUE, fetched |-> TRUE, statusOK |-> TRUE,
              routes |-> <<>>, settled |-> FALSE]
\* instruction texts of a route
Instructions == {"A", "B"}
\* the awaits a VoiceService call can be suspended at, with the instruction
\* it is to speak: speak at `await this.initialize()`, speak at
\* `await this.stop()`, stop at `await Speech.stop()`
CallKinds ==
    {[pc |-> pc, instruction |-> i] :
        pc \in {"speak.initialize", "speak.stop"}, i \in Instructions}
    \cup {[pc |-> "stop", instruction |-> NoInstruction]}
\* distances to the next maneuver, one per band of the component's tests
Distances == {40, 60, 80, 450, 600}

VARIABLES
    tripState,            \* [status, startTime, restStartTime, totalRestTime]
    distance,             \* useState(INITIAL_DISTANCE)
    fare,                 \* useState(BASE_FARE + INITIAL_DISTANCE * FARE_RATE)
    totalFare,            \* useState(BASE_FARE), set by the fare effect
    demandValue,          \* useState(0)
    cumulativeTotal,      \* useState(0)
    recentAdditions,      \* useState<number[]>([])
    showDropoffDialog,    \* useState(false)
    showDemandModal,      \* useState(false)
    showCancelButton,     \* useState(false), set on mount
    hasCompleteOrderData, \* derived from the route params, fixed per session
    tripTimer,            \* the interval the ref tripTimer.current names
    orphanTimers,         \* live intervals no ref names any more
    now,                  \* Date.now()
    mounted,              \* the screen is mounted
    lastOp,               \* the callback that ran last (history variable)
    \* history of the cumulative additions (ghost, for the undo claims)
    pendingAdds,          \* every addition made and not yet undone or cleared
    peakPending,          \* most additions outstanding since the last clear
    \* the VoiceGuidance component: props, state, and the speech it drives
    currentInstruction,   \* prop: the text of the instruction, or NoInstruction
    distanceToNext,       \* prop, metres
    isNavigating,         \* prop
    isMuted,              \* useState(false)
    lastSpokenInstruction,\* useState(null)
    isInitialized,        \* useState(false)
    initializeVoice,      \* the mount effect's call: pending, done or failed
    VoiceService_isInitialized, \* static field of VoiceService
    VoiceService_isSpeaking,    \* static field of VoiceService
    speakCalls,           \* VoiceService calls suspended at an await
    speechQueue,          \* expo-speech: utterances handed over and not done
    speechStarted,        \* expo-speech: the head utterance is playing
    issued,               \* speak requests of the last step (history)
    \* LocationService and the position source
    locationSubscription, \* static field: the handle held, or NULL
    isTracking,           \* static field
    awaitingPermissions,  \* start calls suspended at requestPermissions()
    awaitingWatch,        \* start calls suspended at watchPositionAsync():
                          \*   the subscriptions they are about to receive
    activeSubscriptions,  \* subscriptions the position source delivers to
    subscriptionsMade,    \* subscriptions created so far
    stopSeen,             \* stopLocationTracking ran and no start was
                          \*   called since (history)
    lastCallback,         \* the subscription whose callback ran in the
                          \*   last step, or NULL (history)
    \* NavigationService.decodePolyline and its input
    polyCoords,           \* the path a provider encodes, in 1e-5 degrees
    polyEncoded,          \* the encoded string, as character codes
    polyDecoded,          \* what decodePolyline returned, in 1e-5 degrees
    polyOp,               \* input, encoded, truncated or decoded
    \* the navigation session of the route-progress tracker
    route,                \* useState(null): NoRoute, or the anchors of the
                          \*   route's instructions
    trackerInstruction,   \* useState(null), currentInstruction: the index
                          \*   of the instruction in the route, 0 for none
    trackerPosition,      \* the position of the last update, or NULL
                          \*   (history)
    \* the session's route calculation
    routeCalls,           \* calculateRoute calls awaiting the provider
    lastRouteRequest,     \* what the last settled call met (history)
    lastRouteResult,      \* what NavigationService.calculateRoute returned
                          \*   to it (history)
    \* RegisterScreen
    formData,             \* the six text fields, each a sequence of characters
    errors,               \* the message under each field, NoError when none
    isLoading,
    isOtpSent,
    otpTimer,             \* seconds until the code can be requested again
    authCall,             \* the handler suspended at its await, with the
                          \*   formData and isOtpSent its closure holds
    alertShown,           \* title of the alert the last step showed
    registerOp            \* the last step of the screen (history)

vars == <<tripState, distance, fare, totalFare, demandValue, cumulativeTotal,
          recentAdditions, showDropoffDialog, showDemandModal, showCancelButton,
          hasCompleteOrderData, tripTimer, orphanTimers, now, mounted, lastOp>>

tripVars == <<tripState>>
fareVars == <<distance, fare, totalFare, demandValue, cumulativeTotal>>
modalVars == <<showDropoffDialog, showDemandModal>>
timerVars == <<tripTimer, orphanTimers>>
undoVars == <<pendingAdds, peakPending>>

voiceVars == <<currentInstruction, distanceToNext, isNavigating, isMuted,
               lastSpokenInstruction, isInitialized, initializeVoice,
               VoiceService_isInitialized, VoiceService_isSpeaking,
               speakCalls, speechQueue, speechStarted, issued>>

locationVars == <<locationSubscription, isTracking, awaitingPermissions,
                  awaitingWatch, activeSubscriptions, subscriptionsMade,
                  stopSeen, lastCallback>>

polyVars == <<polyCoords, polyEncoded, polyDecoded, polyOp>>
trackerVars == <<route, trackerInstruction, trackerPosition>>
routeVars == <<routeCalls, lastRouteRequest, lastRouteResult>>
registerVars == <<formData, errors, isLoading, isOtpSent, otpTimer, authCall,
                  alertShown, registerOp>>

\* the state outside the trip screen, which no control of the screen touches
extVars == <<undoVars, voiceVars, locationVars, polyVars, trackerVars,
            routeVars, registerVars>>
allVars == <<vars, extVars>>
\* what the pricing controls leave alone besides the screen's own state
offScreen == <<voiceVars, locationVars, polyVars, trackerVars, routeVars,
              registerVars>>
\* what the voice component and the speech service leave alone
offVoice == <<vars, undoVars, locationVars, polyVars, trackerVars, routeVars,
             registerVars>>
\* what LocationService and the position source leave alone
offLocation == <<vars, undoVars, voiceVars, polyVars, trackerVars,
                routeVars, registerVars>>
\* what decodePolyline leaves alone
offPoly == <<vars, undoVars, voiceVars, locationVars, trackerVars, routeVars,
            registerVars>>
\* what the route-progress tracker leaves alone
offTracker == <<vars, undoVars, voiceVars, locationVars, polyVars, routeVars,
               registerVars>>
\* what a position update of the session, tracker and voice gate together,
\* leaves alone
offSession == <<vars, undoVars, locationVars, polyVars, routeVars,
               registerVars>>
\* what the route calculation leaves alone
offRoute == <<vars, undoVars, voiceVars, locationVars, polyVars, registerVars>>
\* what the registration screen leaves alone
offRegister == <<vars, undoVars, voiceVars, locationVars, polyVars,
                 trackerVars, routeVars>>

\* ------------------------------------------------------------- helpers
NoTimer == [live |-> FALSE, status |-> "idle", demandValue |-> 0,
            currentDistance |-> INITIAL_DISTANCE]

\* distance * FARE_RATE, distance in metres and FARE_RATE per kilometre
DistanceFare(d) == (d * FARE_RATE) \div 1000

\* Mutant: the effect's sum leaves the cumulative additions out.
CalculatedTotal_noCumulative(d, dv, ct) == BASE_FARE + DistanceFare(d) + dv

\* calculatedTotal of the fare useEffect
CalculatedTotal(d, dv, ct) == BASE_FARE + DistanceFare(d) + dv + ct

\* newFare of the interval callback: no cumulative total
TickFare(d, dv) == BASE_FARE + DistanceFare(d) + dv

\* [...prev.slice(-4), value]
PushRecent(prev, value) ==
    LET n == Len(prev)
        tail == IF n > MAX_RECENT - 1
                THEN SubSeq(prev, n - (MAX_RECENT - 1) + 1, n)
                ELSE prev
    IN Append(tail, value)

\* prev.slice(0, -1)
DropLast(prev) == IF Len(prev) = 0 THEN prev ELSE SubSeq(prev, 1, Len(prev) - 1)

Max0(x) == IF x < 0 THEN 0 ELSE x

\* React commit: the state updates of one callback are applied together and
\* the fare useEffect (deps distance, demandValue, cumulativeTotal) runs
\* when, and only when, one of its dependencies changed; it then overwrites
\* totalFare and fare.  handlerFare is what the callback itself left in fare.
Commit(newDistance, newDemand, newCumulative, handlerFare) ==
    /\ distance' = newDistance
    /\ demandValue' = newDemand
    /\ cumulativeTotal' = newCumulative
    /\ IF <<newDistance, newDemand, newCumulative>>
             # <<distance, demandValue, cumulativeTotal>>
       THEN /\ totalFare' = CalculatedTotal(newDistance, newDemand, newCumulative)
            /\ fare' = CalculatedTotal(newDistance, newDemand, newCumulative)
       ELSE /\ totalFare' = totalFare
            /\ fare' = handlerFare

\* no modal (drop-off dialog, demand modal) covers the screen
NoModal == ~showDropoffDialog /\ ~showDemandModal

\* Mutant: the interval is left running.
ClearedTimer_keeps == tripTimer

\* clearInterval(tripTimer.current)
ClearedTimer == [tripTimer EXCEPT !.live = FALSE]

\* ---------------------------------------------------------------- Init
\* The state after the first render and its mount effects: the fare effect
\* has run once and showCancelButton is !!hasCompleteOrderData.
ScreenInit ==
    /\ tripState = [status |-> "idle", startTime |-> NULL,
                    restStartTime |-> NULL, totalRestTime |-> 0]
    /\ distance = INITIAL_DISTANCE
    /\ demandValue = 0
    /\ cumulativeTotal = 0
    /\ totalFare = CalculatedTotal(INITIAL_DISTANCE, 0, 0)
    /\ fare = CalculatedTotal(INITIAL_DISTANCE, 0, 0)
    /\ recentAdditions = <<>>
    /\ showDropoffDialog = FALSE
    /\ showDemandModal = FALSE
    /\ hasCompleteOrderData \in BOOLEAN
    /\ showCancelButton = hasCompleteOrderData
    /\ tripTimer = NoTimer
    /\ orphanTimers = {}
    /\ now = 0
    /\ mounted = TRUE
    /\ lastOp = "mount"

UndoInit ==
    /\ pendingAdds = <<>>
    /\ peakPending = 0

\* VoiceGuidance at mount: the mount effect has called
\* VoiceService.initialize(), which awaits the speech engine; the
\* instruction effect ran once and returned at its guard (not initialized).
VoiceInit ==
    /\ currentInstruction = NoInstruction
    /\ distanceToNext = 600
    /\ isNavigating = FALSE
    /\ isMuted = FALSE
    /\ lastSpokenInstruction = NoInstruction
    /\ isInitialized = FALSE
    /\ initializeVoice = "pending"
    /\ VoiceService_isInitialized = FALSE
    /\ VoiceService_isSpeaking = FALSE
    /\ speakCalls = [k \in CallKinds |-> 0]
    /\ speechQueue = <<>>
    /\ speechStarted = FALSE
    /\ issued = <<>>

\* LocationService before any call
LocationInit ==
    /\ locationSubscription = NULL
    /\ isTracking = FALSE
    /\ awaitingPermissions = 0
    /\ awaitingWatch = {}
    /\ activeSubscriptions = {}
    /\ subscriptionsMade = 0
    /\ stopSeen = FALSE
    /\ lastCallback = NULL

\* no polyline has been received
PolyIdle ==
    /\ polyCoords = <<>>
    /\ polyEncoded = <<>>
    /\ polyDecoded = <<>>
    /\ polyOp = "input"

\* the session before a route is calculated
TrackerIdle ==
    /\ route = NoRoute
    /\ trackerInstruction = 0
    /\ trackerPosition = NULL

\* no route calculation has been asked for
RouteIdle ==
    /\ routeCalls = 0
    /\ lastRouteRequest = NoRequest
    /\ lastRouteResult = NoRoute

\* RegisterScreen after its first render: useState initial values
NoError == "none"
Fields == {"fullName", "email", "phoneNumber", "password", "confirmPassword",
           "otp"}
EmptyForm == [f \in Fields |-> <<>>]
NoErrors == [f \in Fields \cup {"general"} |-> NoError]
NoCall == [kind |-> "none", formData |-> EmptyForm, isOtpSent |-> FALSE]
NoAlert == "none"

RegisterIdle ==
    /\ formData = EmptyForm
    /\ errors = NoErrors
    /\ isLoading = FALSE
    /\ isOtpSent = FALSE
    /\ otpTimer = 0
    /\ authCall = NoCall
    /\ alertShown = NoAlert
    /\ registerOp = "render"

\* everything but the polyline and the tracker
BaseInit ==
    /\ ScreenInit
    /\ UndoInit
    /\ VoiceInit
    /\ LocationInit
    /\ RouteIdle
    /\ RegisterIdle

Init ==
    /\ BaseInit
    /\ PolyIdle
    /\ TrackerIdle


\* ------------------------------------------------------ trip handlers
\* startTripSimulation: the interval callback closes over the tripState and
\* demandValue of the render in which startTrip ran, and over its own
\* currentDistance; the ref is overwritten without clearing an old interval.
startTripSimulation ==
    /\ tripTimer' = [live |-> TRUE, status |-> tripState.status,
                     demandValue |-> demandValue,
                     currentDistance |-> INITIAL_DISTANCE]
    /\ orphanTimers' = IF tripTimer.live THEN orphanTimers \cup {tripTimer}
                       ELSE orphanTimers

startTrip ==
    /\ tripState' = [status |-> "active", startTime |-> now,
                     restStartTime |-> NULL, totalRestTime |-> 0]
    /\ startTripSimulation
    /\ lastOp' = "startTrip"
    /\ UNCHANGED <<fareVars, recentAdditions, modalVars, showCancelButton,
                   hasCompleteOrderData, now, mounted>>

\* Mutant: resuming keeps restStartTime (a spread of prev without the reset).
toggleRest_keepsRestStart ==
    /\ tripState' =
         IF tripState.status = "active"
         THEN [tripState EXCEPT !.status = "resting", !.restStartTime = now]
         ELSE IF tripState.status = "resting"
         THEN [tripState EXCEPT
                 !.status = "active",
                 !.totalRestTime = @ + (now - tripState.restStartTime)]
         ELSE tripState
    /\ lastOp' = "toggleRest"
    /\ UNCHANGED <<fareVars, recentAdditions, modalVars, showCancelButton,
                   hasCompleteOrderData, timerVars, now, mounted>>

\* Mutant: resuming stores the last rest instead of adding it to the total.
toggleRest_overwritesTotal ==
    /\ tripState' =
         IF tripState.status = "active"
         THEN [tripState EXCEPT !.status = "resting", !.restStartTime = now]
         ELSE IF tripState.status = "resting"
         THEN [tripState EXCEPT
                 !.status = "active",
                 !.restStartTime = NULL,
                 !.totalRestTime = now - tripState.restStartTime]
         ELSE tripState
    /\ lastOp' = "toggleRest"
    /\ UNCHANGED <<fareVars, recentAdditions, modalVars, showCancelButton,
                   hasCompleteOrderData, timerVars, now, mounted>>

toggleRest ==
    /\ tripState' =
         IF tripState.status = "active"
         THEN [tripState EXCEPT !.status = "resting", !.restStartTime = now]
         ELSE IF tripState.status = "resting"
         THEN [tripState EXCEPT
                 !.status = "active",
                 !.restStartTime = NULL,
                 !.totalRestTime =
                     @ + (now - (IF tripState.restStartTime = NULL THEN 0
                                 ELSE tripState.restStartTime))]
         ELSE tripState
    /\ lastOp' = "toggleRest"
    /\ UNCHANGED <<fareVars, recentAdditions, modalVars, showCancelButton,
                   hasCompleteOrderData, timerVars, now, mounted>>

dropOff ==
    /\ showDropoffDialog' = TRUE
    /\ lastOp' = "dropOff"
    /\ UNCHANGED <<tripVars, fareVars, recentAdditions, showDemandModal,
                   showCancelButton, hasCompleteOrderData, timerVars, now,
                   mounted>>

\* The handler alone; the dialog's handleConfirm closes the dialog after it.
handleDropoffConfirm ==
    /\ tripTimer' = ClearedTimer
    /\ tripState' = [status |-> "completed", startTime |-> NULL,
                     restStartTime |-> NULL, totalRestTime |-> 0]
    /\ lastOp' = "handleDropoffConfirm"
    /\ UNCHANGED <<fareVars, recentAdditions, showDemandModal,
                   showCancelButton, hasCompleteOrderData, orphanTimers, now,
                   mounted>>

resetTrip ==
    /\ tripTimer' = ClearedTimer
    /\ tripState' = [status |-> "idle", startTime |-> NULL,
                     restStartTime |-> NULL, totalRestTime |-> 0]
    /\ Commit(INITIAL_DISTANCE, 0, cumulativeTotal,
              TickFare(INITIAL_DISTANCE, demandValue))
    /\ lastOp' = "resetTrip"
    /\ UNCHANGED <<recentAdditions, modalVars, showCancelButton,
                   hasCompleteOrderData, orphanTimers, now, mounted>>

\* The onPress of the alert's "Yes, Cancel" button.
handleCancelOrder ==
    /\ tripTimer' = ClearedTimer
    /\ tripState' = [status |-> "idle", startTime |-> NULL,
                     restStartTime |-> NULL, totalRestTime |-> 0]
    /\ Commit(INITIAL_DISTANCE, 0, cumulativeTotal,
              TickFare(INITIAL_DISTANCE, 0))
    /\ showCancelButton' = FALSE
    /\ lastOp' = "handleCancelOrder"
    /\ UNCHANGED <<recentAdditions, modalVars, hasCompleteOrderData,
                   orphanTimers, now, mounted>>

\* ------------------------------------------------------ fare handlers
handleDemandSelect(selectedDemand) ==
    /\ Commit(distance, selectedDemand, cumulativeTotal, fare)
    /\ showDemandModal' = FALSE
    /\ lastOp' = "handleDemandSelect"
    /\ UNCHANGED <<tripVars, recentAdditions, showDropoffDialog,
                   showCancelButton, hasCompleteOrderData, timerVars, now,
                   mounted>>

handlePriceAdd(value) ==
    /\ Commit(distance, demandValue, cumulativeTotal + value, fare)
    /\ recentAdditions' = PushRecent(recentAdditions, value)
    /\ lastOp' = "handlePriceAdd"
    /\ UNCHANGED <<tripVars, modalVars, showCancelButton,
                   hasCompleteOrderData, timerVars, now, mounted>>

\* The onPress of the alert's "Clear" button.
handleClearCumulative ==
    /\ Commit(distance, demandValue, 0, fare)
    /\ recentAdditions' = <<>>
    /\ lastOp' = "handleClearCumulative"
    /\ UNCHANGED <<tripVars, modalVars, showCancelButton,
                   hasCompleteOrderData, timerVars, now, mounted>>

\* Mutant: undo subtracts the oldest remembered addition, not the newest.
handleUndoLast_subtractsOldest ==
    /\ IF Len(recentAdditions) > 0
       THEN /\ Commit(distance, demandValue,
                      Max0(cumulativeTotal - recentAdditions[1]), fare)
            /\ recentAdditions' = DropLast(recentAdditions)
       ELSE UNCHANGED <<fareVars, recentAdditions>>
    /\ lastOp' = "handleUndoLast"
    /\ UNCHANGED <<tripVars, modalVars, showCancelButton,
                   hasCompleteOrderData, timerVars, now, mounted>>

handleUndoLast ==
    /\ IF Len(recentAdditions) > 0
       THEN /\ Commit(distance, demandValue,
                      Max0(cumulativeTotal - recentAdditions[Len(recentAdditions)]),
                      fare)
            /\ recentAdditions' = DropLast(recentAdditions)
       ELSE UNCHANGED <<fareVars, recentAdditions>>
    /\ lastOp' = "handleUndoLast"
    /\ UNCHANGED <<tripVars, modalVars, showCancelButton,
                   hasCompleteOrderData, timerVars, now, mounted>>

\* ------------------------------------------------- the interval callback
\* The live intervals: the one the ref names and the orphaned ones.
LiveTimers ==
    (IF tripTimer.live THEN {<<"ref", tripTimer>>} ELSE {})
        \cup {<<"orphan", t>> : t \in orphanTimers}

\* Mutant: the callback accumulates without testing the status.
TickedClosure_noStatusTest(c, increment) ==
    [c EXCEPT !.currentDistance = @ + increment]

\* The closure after one run of the callback of setInterval: it tests the
\* tripState it closed over, not the current one.
TickedClosure(c, increment) ==
    IF c.status = "active"
    THEN [c EXCEPT !.currentDistance = @ + increment]
    ELSE c

Tick ==
    /\ UNCHANGED extVars
    /\ \E lt \in LiveTimers, increment \in Increments :
        LET c == lt[2]
            c2 == TickedClosure(c, increment)
        IN /\ c2.currentDistance <= MaxDistance
           /\ IF lt[1] = "ref"
              THEN tripTimer' = c2 /\ orphanTimers' = orphanTimers
              ELSE /\ tripTimer' = tripTimer
                   /\ orphanTimers' = (orphanTimers \ {c}) \cup {c2}
           /\ IF c2 # c /\ mounted
              THEN Commit(c2.currentDistance, demandValue, cumulativeTotal,
                          TickFare(c2.currentDistance, c.demandValue))
              ELSE UNCHANGED fareVars
           /\ lastOp' = "tick"
           /\ UNCHANGED <<tripVars, recentAdditions, modalVars,
                          showCancelButton, hasCompleteOrderData, now, mounted>>

\* ------------------------------------------------------- the environment
PassTime ==
    /\ UNCHANGED extVars
    /\ now + TimeStep <= MaxTime
    /\ now' = now + TimeStep
    /\ lastOp' = "passTime"
    /\ UNCHANGED <<tripVars, fareVars, recentAdditions, modalVars,
                   showCancelButton, hasCompleteOrderData, timerVars, mounted>>

\* Cleanup of the mount effect (router.back(), the screen goes away).
Unmount ==
    /\ UNCHANGED extVars
    /\ mounted
    /\ mounted' = FALSE
    /\ tripTimer' = ClearedTimer
    /\ lastOp' = "unmount"
    /\ UNCHANGED <<tripVars, fareVars, recentAdditions, modalVars,
                   showCancelButton, hasCompleteOrderData, orphanTimers, now>>

\* Mutant: the start button is rendered in every status.
PressStart_anyStatus ==
    /\ UNCHANGED extVars
    /\ mounted /\ NoModal
    /\ startTrip

\* ------------------------------------------- the controls as rendered
\* Each control exists only under its render condition, and none of the
\* screen's controls can be pressed under an open modal.
PressStart ==
    /\ UNCHANGED extVars
    /\ mounted /\ NoModal /\ tripState.status = "idle"
    /\ startTrip

PressRest ==
    /\ UNCHANGED extVars
    /\ mounted /\ NoModal /\ tripState.status \in {"active", "resting"}
    /\ toggleRest

PressDropOff ==
    /\ UNCHANGED extVars
    /\ mounted /\ NoModal /\ tripState.status \in {"active", "resting"}
    /\ dropOff

\* DropoffDialog.handleConfirm: onConfirm(); onClose()
ConfirmDropoff ==
    /\ UNCHANGED extVars
    /\ mounted /\ showDropoffDialog
    /\ handleDropoffConfirm
    /\ showDropoffDialog' = FALSE

\* DropoffDialog onClose (backdrop, cancel button)
CloseDropoff ==
    /\ UNCHANGED extVars
    /\ mounted /\ showDropoffDialog
    /\ showDropoffDialog' = FALSE
    /\ lastOp' = "closeDropoff"
    /\ UNCHANGED <<tripVars, fareVars, recentAdditions, showDemandModal,
                   showCancelButton, hasCompleteOrderData, timerVars, now,
                   mounted>>

PressReset ==
    /\ UNCHANGED extVars
    /\ mounted /\ NoModal /\ tripState.status = "completed"
    /\ resetTrip

PressCancel ==
    /\ UNCHANGED extVars
    /\ mounted /\ NoModal /\ showCancelButton
    /\ tripState.status \in {"idle", "completed"}
    /\ handleCancelOrder

PressPriceAdd ==
    /\ UNCHANGED extVars
    /\ mounted /\ NoModal
    /\ \E value \in PRICE_OPTIONS :
          /\ cumulativeTotal + value <= MaxCumulative
          /\ handlePriceAdd(value)

PressUndo ==
    /\ UNCHANGED extVars
    /\ mounted /\ NoModal /\ Len(recentAdditions) > 0
    /\ handleUndoLast

PressClear ==
    /\ UNCHANGED extVars
    /\ mounted /\ NoModal /\ cumulativeTotal > 0
    /\ handleClearCumulative

OpenDemandModal ==
    /\ UNCHANGED extVars
    /\ mounted /\ NoModal
    /\ showDemandModal' = TRUE
    /\ lastOp' = "openDemandModal"
    /\ UNCHANGED <<tripVars, fareVars, recentAdditions, showDropoffDialog,
                   showCancelButton, hasCompleteOrderData, timerVars, now,
                   mounted>>

CloseDemandModal ==
    /\ UNCHANGED extVars
    /\ mounted /\ showDemandModal
    /\ showDemandModal' = FALSE
    /\ lastOp' = "closeDemandModal"
    /\ UNCHANGED <<tripVars, fareVars, recentAdditions, showDropoffDialog,
                   showCancelButton, hasCompleteOrderData, timerVars, now,
                   mounted>>

\* The name lastOp takes for a press of the option worth v that threw.
OptionPress(v) ==
    CASE v = 0 -> "handleOptionSelect(0)"
      [] v = 500 -> "handleOptionSelect(500)"
      [] v = 1000 -> "handleOptionSelect(1000)"
      [] v = 2000 -> "handleOptionSelect(2000)"

\* DemandModal.handleOptionSelect calls its onSelect prop; a prop the parent
\* does not pass is undefined and the call throws, leaving the state alone.
handleOptionSelect ==
    /\ UNCHANGED extVars
    /\ mounted /\ showDemandModal
    /\ \E v \in DEMAND_OPTIONS \cup {0} :
          IF "onSelect" \in DemandModalPassedProps
          THEN handleDemandSelect(v)
          ELSE /\ lastOp' = OptionPress(v)
               /\ UNCHANGED <<tripVars, fareVars, recentAdditions, modalVars,
                              showCancelButton, hasCompleteOrderData,
                              timerVars, now, mounted>>

\* -------------------------------------------------------- specifications
\* The screen as the user can drive it.
Next ==
    \/ PressStart
    \/ PressRest
    \/ PressDropOff
    \/ ConfirmDropoff
    \/ CloseDropoff
    \/ PressReset
    \/ PressCancel
    \/ PressPriceAdd
    \/ PressUndo
    \/ PressClear
    \/ OpenDemandModal
    \/ CloseDemandModal
    \/ handleOptionSelect
    \/ Tick
    \/ PassTime
    \/ Unmount

Spec == Init /\ [][Next]_vars

\* The handlers called directly, in whatever status the trip is: the events
\* of the state machine applied where the screen renders no control for them.
CallToggleRest ==
    /\ UNCHANGED extVars
    /\ mounted
    /\ toggleRest

CallDropoffConfirm ==
    /\ UNCHANGED extVars
    /\ mounted
    /\ handleDropoffConfirm
    /\ UNCHANGED showDropoffDialog

CallDemandSelect ==
    /\ UNCHANGED extVars
    /\ mounted
    /\ \E v \in DEMAND_OPTIONS \cup {0} : handleDemandSelect(v)

HandlerNext ==
    \/ Next
    \/ CallToggleRest
    \/ CallDropoffConfirm
    \/ CallDemandSelect

HandlerSpec == Init /\ [][HandlerNext]_vars

\* ------------------------------------------------------------ claims
InTrip(st) == st \in {"active", "resting"}

\* C1: once the trip status is completed, no timer tick, demand selection or
\* cumulative-addition operation changes totalFare / fare: every step that
\* starts and ends in completed leaves both as they were.
C1_FareFrozenOnceCompleted ==
    [][(tripState.status = "completed" /\ tripState'.status = "completed")
          => (totalFare' = totalFare /\ fare' = fare)]_vars

\* C2: the status changes only along idle->active (startTrip),
\* active<->resting (toggleRest), active/resting->completed (confirmed
\* drop-off), any->idle (cancel) and completed->idle (resetTrip); startTrip
\* runs only in idle and completed is entered only from active or resting.
C2_TransitionsAsListed ==
    [][/\ tripState'.status # tripState.status =>
            \/ /\ tripState.status = "idle" /\ tripState'.status = "active"
               /\ lastOp' = "startTrip"
            \/ /\ tripState.status = "active" /\ tripState'.status = "resting"
               /\ lastOp' = "toggleRest"
            \/ /\ tripState.status = "resting" /\ tripState'.status = "active"
               /\ lastOp' = "toggleRest"
            \/ /\ InTrip(tripState.status) /\ tripState'.status = "completed"
               /\ lastOp' = "handleDropoffConfirm"
            \/ /\ tripState'.status = "idle"
               /\ lastOp' = "handleCancelOrder"
            \/ /\ tripState.status = "completed" /\ tripState'.status = "idle"
               /\ lastOp' = "resetTrip"
       /\ lastOp' = "startTrip" => tripState.status = "idle"
       /\ lastOp' = "handleDropoffConfirm" => InTrip(tripState.status)
      ]_vars

\* C2 witness: a trip has gone idle -> active -> completed -> idle.
C2_Witness ==
    /\ lastOp = "resetTrip"
    /\ tripState.status = "idle"

\* C3: toggleRest applied in idle or completed, and a confirmed drop-off
\* applied in idle, leave TripState unchanged.
C3_UnlistedEventsAreNoOps ==
    [][(\/ /\ lastOp' = "toggleRest"
           /\ tripState.status \in {"idle", "completed"}
        \/ /\ lastOp' = "handleDropoffConfirm"
           /\ tripState.status = "idle")
          => tripState' = tripState]_vars

\* C4: in every settled state totalFare = 2000 + distance x 600 per km
\* + demandValue + cumulativeTotal; 2060 at the initial 0.1 km, 3060 with
\* demand 1000, 3560 with a further 500 added.
C4_TotalFareFormula ==
    /\ totalFare = 2000 + (distance * 600) \div 1000 + demandValue + cumulativeTotal
    /\ (distance = 100 /\ demandValue = 0 /\ cumulativeTotal = 0)
          => totalFare = 2060
    /\ (distance = 100 /\ demandValue = 1000 /\ cumulativeTotal = 0)
          => totalFare = 3060
    /\ (distance = 100 /\ demandValue = 1000 /\ cumulativeTotal = 500)
          => totalFare = 3560

\* C4 witness: demand 1000 selected and 500 added at the initial distance.
C4_Witness ==
    /\ distance = 100
    /\ demandValue = 1000
    /\ cumulativeTotal = 500
    /\ recentAdditions = <<500>>
    /\ totalFare = 3560

\* C5: every timer tick that fires while the trip is active strictly
\* increases the accumulated distance.
C5_TickWhileActiveIncreasesDistance ==
    [][(lastOp' = "tick" /\ tripState.status = "active")
          => distance' > distance]_vars

\* C6: no timer tick changes distance while the status is resting or
\* completed.
C6_DistanceFrozenAtRest ==
    [][(lastOp' = "tick" /\ tripState.status \in {"resting", "completed"})
          => distance' = distance]_vars

\* C6 witness: a tick has fired during a rest.
C6_Witness ==
    /\ lastOp = "tick"
    /\ tripState.status = "resting"
    /\ tripTimer.live

\* C7: startTime is set if and only if the status is active, resting or
\* completed (a completed trip was started).
C7_StartTimeSetIffStarted ==
    (tripState.startTime # NULL)
        <=> (tripState.status \in {"active", "resting", "completed"})

\* C8: restStartTime is set if and only if the status is resting.
C8_RestStartSetIffResting ==
    (tripState.restStartTime # NULL) <=> (tripState.status = "resting")

\* C8 witness: a trip that has rested and resumed.
C8_Witness ==
    /\ lastOp = "toggleRest"
    /\ tripState.status = "active"
    /\ tripState.totalRestTime > 0
    /\ tripState.restStartTime = NULL

\* C9: resuming at t2 a rest entered at t1 adds exactly t2 - t1 to
\* totalRestTime; entering a rest records t1 and adds nothing; nothing else
\* changes the total during a trip; startTrip resets it to 0.
C9_RestTimeAccounting ==
    [][/\ (tripState.status = "resting" /\ lastOp' = "toggleRest") =>
            /\ tripState'.status = "active"
            /\ tripState'.totalRestTime =
                 tripState.totalRestTime + (now - tripState.restStartTime)
       /\ (tripState.status = "active" /\ lastOp' = "toggleRest") =>
            /\ tripState'.status = "resting"
            /\ tripState'.restStartTime = now
            /\ tripState'.totalRestTime = tripState.totalRestTime
       /\ lastOp' = "startTrip" => tripState'.totalRestTime = 0
       /\ (/\ InTrip(tripState.status) /\ InTrip(tripState'.status)
           /\ lastOp' # "toggleRest") =>
            /\ tripState'.totalRestTime = tripState.totalRestTime
            /\ tripState'.restStartTime = tripState.restStartTime
      ]_vars

\* C9 witness: started at 0 s, rested at 10 s, resumed at 15 s: 5 s of rest.
C9_Witness ==
    /\ lastOp = "toggleRest"
    /\ tripState.status = "active"
    /\ tripState.startTime = 0
    /\ now = 15
    /\ tripState.totalRestTime = 5

\* C10: a confirmed cancel leaves status idle, startTime and restStartTime
\* null, totalRestTime 0, distance initial, demandValue 0, cumulativeTotal 0
\* and recentAdditions empty.
C10_CancelClearsSession ==
    lastOp = "handleCancelOrder" =>
        /\ tripState = [status |-> "idle", startTime |-> NULL,
                        restStartTime |-> NULL, totalRestTime |-> 0]
        /\ distance = INITIAL_DISTANCE
        /\ demandValue = 0
        /\ cumulativeTotal = 0
        /\ recentAdditions = <<>>


\* ---------------------------------------------------------------------
\* The cumulative additions alone, with their full history kept beside
\* recentAdditions: pendingAdds is the stack of additions made and not yet
\* undone or cleared, whatever recentAdditions has forgotten.
RECURSIVE SumSeq(_)
SumSeq(q) == IF Len(q) = 0 THEN 0 ELSE q[1] + SumSeq(Tail(q))

LastOf(q) == q[Len(q)]

IsSuffix(q, r) ==
    /\ Len(q) <= Len(r)
    /\ q = SubSeq(r, Len(r) - Len(q) + 1, Len(r))

UndoAdd ==
    /\ UNCHANGED offScreen
    /\ mounted /\ NoModal
    /\ \E value \in PRICE_OPTIONS :
          /\ cumulativeTotal + value <= MaxUndoTotal
          /\ Len(pendingAdds) < MaxPending
          /\ handlePriceAdd(value)
          /\ pendingAdds' = Append(pendingAdds, value)
          /\ peakPending' = IF Len(pendingAdds) + 1 > peakPending
                            THEN Len(pendingAdds) + 1 ELSE peakPending

\* The Undo button exists only while recentAdditions is not empty.
UndoPress ==
    /\ UNCHANGED offScreen
    /\ mounted /\ NoModal /\ Len(recentAdditions) > 0
    /\ handleUndoLast
    /\ pendingAdds' = DropLast(pendingAdds)
    /\ peakPending' = peakPending

UndoClear ==
    /\ UNCHANGED offScreen
    /\ mounted /\ NoModal /\ cumulativeTotal > 0
    /\ handleClearCumulative
    /\ pendingAdds' = <<>>
    /\ peakPending' = 0

UndoNext ==
    \/ UndoAdd
    \/ UndoPress
    \/ UndoClear

UndoSpec == Init /\ [][UndoNext]_allVars


\* C11 (as claimed): undo always reaches the most recent addition not yet
\* undone, so every outstanding addition can be undone in LIFO order and k
\* undos after k additions empty the history and restore the total.
C11_EveryAdditionUndoable ==
    /\ cumulativeTotal = SumSeq(pendingAdds)
    /\ pendingAdds # <<>> =>
          /\ recentAdditions # <<>>
          /\ LastOf(recentAdditions) = LastOf(pendingAdds)

\* C11 (amended): recentAdditions remembers the last five additions only.
\* The total is the sum of the outstanding additions, the history is a
\* suffix of them of at most five entries, and as long as no more than five
\* additions were outstanding at once the history is all of them: k <= 5
\* additions followed by k undos restore the total and empty the history.
C11_UndoWithinFive ==
    /\ cumulativeTotal = SumSeq(pendingAdds)
    /\ Len(recentAdditions) <= 5
    /\ IsSuffix(recentAdditions, pendingAdds)
    /\ peakPending <= 5 => recentAdditions = pendingAdds
    /\ (peakPending <= 5 /\ pendingAdds = <<>>) =>
          (cumulativeTotal = 0 /\ recentAdditions = <<>>)

\* C11 witness: five additions of different sizes, then five undos.
C11_Witness ==
    /\ lastOp = "handleUndoLast"
    /\ peakPending = 5
    /\ pendingAdds = <<>>
    /\ recentAdditions = <<>>
    /\ cumulativeTotal = 0

\* C12: a press of the option worth v in the demand modal leaves the demand
\* surcharge at v, whatever it was before, and the total fare holds v once.
C12_SelectReplacesDemand ==
    [][\A v \in DEMAND_OPTIONS \cup {0} :
          (showDemandModal /\ lastOp' = OptionPress(v)) =>
              /\ demandValue' = v
              /\ totalFare' = 2000 + (distance' * 600) \div 1000 + v
                                + cumulativeTotal']_vars

\* ====================================================== voice guidance
\* VoiceGuidance (VoiceGuidance.tsx:16-130) and VoiceService (part_003).
\* One action is one JavaScript task: a callback or the continuation of an
\* await on the speech engine, run to completion with the promise
\* continuations that need no engine answer, then React's commit and the
\* instruction effect when one of its dependencies changed.
\* The engine executes Speech.speak and Speech.stop in the order of the
\* calls, so their effect on the queue is taken at the call; what arrives
\* later is the resolution of the promise and the onStart/onDone callbacks.

\* the text speakInstruction builds: the metres it names (0: none) and
\* the instruction
SpokenMeters(d) ==
    IF d <= 50 THEN 0
    ELSE IF d <= 100 THEN d
    ELSE ((d + 25) \div 50) * 50

\* the suspended calls are a bag: any of them may resume next
RECURSIVE CountCalls(_, _)
CountCalls(calls, kinds) ==
    IF kinds = {} THEN 0
    ELSE LET k == CHOOSE x \in kinds : TRUE
         IN calls[k] + CountCalls(calls, kinds \ {k})

Suspend(calls, pc, instruction) ==
    [calls EXCEPT ![[pc |-> pc, instruction |-> instruction]] = @ + 1]

\* the speech service, the engine and what speakInstruction writes, as one
\* value the steps of a task transform
Service ==
    [isInitialized |-> VoiceService_isInitialized,
     isSpeaking |-> VoiceService_isSpeaking,
     calls |-> speakCalls,
     queue |-> speechQueue,
     started |-> speechStarted,
     lastSpoken |-> lastSpokenInstruction,
     issued |-> <<>>]

SetService(S) ==
    /\ CountCalls(S.calls, CallKinds) <= MaxInFlight
    /\ Len(S.queue) <= MaxQueue
    /\ VoiceService_isInitialized' = S.isInitialized
    /\ VoiceService_isSpeaking' = S.isSpeaking
    /\ speakCalls' = S.calls
    /\ speechQueue' = S.queue
    /\ speechStarted' = S.started
    /\ lastSpokenInstruction' = S.lastSpoken
    /\ issued' = S.issued

\* Speech.speak(text, options): the utterance joins the engine's queue
SpeechSpeak(S, text) == [S EXCEPT !.queue = Append(@, text)]

\* Speech.stop(): the engine drops what it plays and what it queues; the
\* dropped utterance's onStopped sets isSpeaking = false
SpeechStop(S) ==
    [S EXCEPT !.queue = <<>>, !.started = FALSE,
              !.isSpeaking = IF S.queue = <<>> THEN @ ELSE FALSE]

\* VoiceService.stop() up to its await
VoiceServiceStop(S) ==
    [SpeechStop(S) EXCEPT
        !.calls = Suspend(@, "stop", NoInstruction)]

\* VoiceService.speak from Speech.speak on, and speakInstruction's
\* setLastSpokenInstruction after it
SpeakNow(S, text) ==
    [SpeechSpeak(S, text) EXCEPT !.lastSpoken = text]

\* VoiceService.speak after `await this.initialize()`
AfterInitialize(S, text) ==
    IF S.isSpeaking
    THEN [SpeechStop(S) EXCEPT
             !.calls = Suspend(@, "speak.stop", text)]
    ELSE SpeakNow(S, text)

\* VoiceService.speak(text): initialize() returns at once when the service
\* is initialized and awaits Speech.isSpeakingAsync() otherwise
VoiceServiceSpeak(S, text) ==
    IF S.isInitialized
    THEN AfterInitialize(S, text)
    ELSE [S EXCEPT !.calls = Suspend(@, "speak.initialize", text)]

\* speakInstruction(instruction, distance).  The request records the text
\* built; the service and the engine are followed by the instruction the
\* text is for.
speakInstruction(S, by, instruction, d) ==
    [VoiceServiceSpeak(S, instruction) EXCEPT
        !.issued = Append(@, [by |-> by, instruction |-> instruction,
                              distance |-> d, meters |-> SpokenMeters(d)])]

\* Mutant: a new instruction is announced at any distance up to 500 m, and a
\* spoken one never again.
shouldSpeak_onlyNew(d, instruction, lastSpoken) ==
    d <= 500 /\ instruction # lastSpoken

shouldSpeak(d, instruction, lastSpoken) ==
    d <= 100 \/ (d <= 500 /\ instruction # lastSpoken)

\* the instruction effect of one render
instructionEffect(S, initialized, navigating, muted, instruction, d, lastSpoken) ==
    IF ~initialized \/ ~navigating \/ muted \/ instruction = NoInstruction
    THEN S
    ELSE IF shouldSpeak(d, instruction, lastSpoken)
         THEN speakInstruction(S, "effect", instruction, d)
         ELSE S

\* the component renders its controls
Rendered == isNavigating /\ currentInstruction # NoInstruction

\* the mount effect's VoiceService.initialize() settles: on success the
\* component becomes initialized and the instruction effect runs
initializeVoiceSettles ==
    /\ UNCHANGED offVoice
    /\ initializeVoice = "pending"
    /\ \E ok \in BOOLEAN :
          /\ initializeVoice' = IF ok THEN "done" ELSE "failed"
          /\ isInitialized' = ok
          /\ SetService(
                IF ok
                THEN instructionEffect(
                        [Service EXCEPT !.isInitialized = TRUE], TRUE,
                        isNavigating, isMuted, currentInstruction,
                        distanceToNext, lastSpokenInstruction)
                ELSE Service)
    /\ UNCHANGED <<currentInstruction, distanceToNext, isNavigating, isMuted>>

\* the parent renders the component with other props
PropsChange ==
    /\ UNCHANGED offVoice
    /\ \E instruction \in Instructions \cup {NoInstruction},
          d \in Distances, navigating \in BOOLEAN :
          /\ <<instruction, d, navigating>>
                # <<currentInstruction, distanceToNext, isNavigating>>
          /\ currentInstruction' = instruction
          /\ distanceToNext' = d
          /\ isNavigating' = navigating
          /\ SetService(instructionEffect(Service, isInitialized, navigating,
                                          isMuted, instruction, d,
                                          lastSpokenInstruction))
    /\ UNCHANGED <<isMuted, isInitialized, initializeVoice>>

\* Mutant: unmuting announces only what the distance rule would announce.
UnmuteAnnounce_whenDue(S) ==
    IF shouldSpeak(distanceToNext, currentInstruction, lastSpokenInstruction)
    THEN speakInstruction(S, "toggleMute", currentInstruction, distanceToNext)
    ELSE S

\* toggleMute, unmuting: `else if (currentInstruction) speakInstruction(...)`
UnmuteAnnounce(S) ==
    IF currentInstruction # NoInstruction
    THEN speakInstruction(S, "toggleMute", currentInstruction, distanceToNext)
    ELSE S

\* toggleMute.  Muting calls VoiceService.stop(); unmuting speaks the current
\* instruction.  isMuted is a dependency of the instruction effect, which
\* runs after the commit; whether the render it belongs to already holds the
\* lastSpokenInstruction written by the call above is not determined.
toggleMute ==
    /\ UNCHANGED offVoice
    /\ Rendered
    /\ isMuted' = ~isMuted
    /\ IF ~isMuted
       THEN SetService(VoiceServiceStop(Service))
       ELSE LET S1 == UnmuteAnnounce(Service)
            IN \E seen \in {lastSpokenInstruction, S1.lastSpoken} :
                  SetService(instructionEffect(S1, isInitialized, isNavigating,
                                               FALSE, currentInstruction,
                                               distanceToNext, seen))
    /\ UNCHANGED <<currentInstruction, distanceToNext, isNavigating,
                   isInitialized, initializeVoice>>

repeatInstruction ==
    /\ UNCHANGED offVoice
    /\ Rendered
    /\ SetService(IF currentInstruction # NoInstruction /\ ~isMuted
                     /\ isInitialized
                  THEN speakInstruction(Service, "repeatInstruction",
                                        currentInstruction, distanceToNext)
                  ELSE Service)
    /\ UNCHANGED <<currentInstruction, distanceToNext, isNavigating, isMuted,
                   isInitialized, initializeVoice>>

\* a suspended VoiceService call resumes: Speech.isSpeakingAsync() settled
\* (initialize) or Speech.stop() resolved (stop).  A failed initialize is
\* caught by speak, which sets isSpeaking = false and returns, and
\* speakInstruction records the instruction as spoken.
Resumed(S, call, ok) ==
    CASE call.pc = "speak.initialize" ->
            IF ok
            THEN AfterInitialize([S EXCEPT !.isInitialized = TRUE],
                                 call.instruction)
            ELSE [S EXCEPT !.isSpeaking = FALSE,
                           !.lastSpoken = call.instruction]
      [] call.pc = "speak.stop" ->
            SpeakNow([S EXCEPT !.isSpeaking = FALSE], call.instruction)
      [] call.pc = "stop" ->
            [S EXCEPT !.isSpeaking = FALSE]

VoiceServiceResumes ==
    /\ UNCHANGED offVoice
    /\ \E call \in CallKinds, ok \in BOOLEAN :
          /\ speakCalls[call] > 0
          /\ ok \/ call.pc = "speak.initialize"
          /\ SetService(Resumed([Service EXCEPT !.calls[call] = @ - 1],
                                call, ok))
    /\ UNCHANGED <<currentInstruction, distanceToNext, isNavigating, isMuted,
                   isInitialized, initializeVoice>>

\* the engine starts the head of its queue: options.onStart
onStart ==
    /\ UNCHANGED offVoice
    /\ speechQueue # <<>> /\ ~speechStarted
    /\ speechStarted' = TRUE
    /\ VoiceService_isSpeaking' = TRUE
    /\ issued' = <<>>
    /\ UNCHANGED <<currentInstruction, distanceToNext, isNavigating, isMuted,
                   lastSpokenInstruction, isInitialized, initializeVoice,
                   VoiceService_isInitialized, speakCalls, speechQueue>>

\* the engine finishes the utterance it plays: options.onDone
onDone ==
    /\ UNCHANGED offVoice
    /\ speechStarted
    /\ speechQueue' = Tail(speechQueue)
    /\ speechStarted' = FALSE
    /\ VoiceService_isSpeaking' = FALSE
    /\ issued' = <<>>
    /\ UNCHANGED <<currentInstruction, distanceToNext, isNavigating, isMuted,
                   lastSpokenInstruction, isInitialized, initializeVoice,
                   VoiceService_isInitialized, speakCalls>>

VoiceNext ==
    \/ initializeVoiceSettles
    \/ PropsChange
    \/ toggleMute
    \/ repeatInstruction
    \/ VoiceServiceResumes
    \/ onStart
    \/ onDone

\* the component beside a screen opened with complete order data
VoiceSpecInit == Init /\ hasCompleteOrderData

VoiceSpec == VoiceSpecInit /\ [][VoiceNext]_allVars

\* ------------------------------------------------- claims: voice gate
\* a step in which the parent hands the component other props
PropsStep ==
    <<currentInstruction, distanceToNext, isNavigating>>'
        # <<currentInstruction, distanceToNext, isNavigating>>

\* the last step made the instruction effect issue a speak request
EffectAnnounced == \E i \in DOMAIN issued : issued[i].by = "effect"

\* C13 (as claimed): on a change of the inputs the effect announces exactly
\* when the component is not muted and the distance is at most 100 m, or
\* at most 500 m with an instruction other than the last spoken one; it
\* never announces while muted or above 500 m.
C13_GateRule ==
    [][/\ PropsStep =>
            (EffectAnnounced' <=>
                /\ ~isMuted
                /\ \/ distanceToNext' <= 100
                   \/ /\ distanceToNext' <= 500
                      /\ currentInstruction' # lastSpokenInstruction)
       /\ EffectAnnounced' => ~isMuted' /\ distanceToNext' <= 500
      ]_allVars

\* C13 (amended): the rule decides only while voice is initialized, the
\* session is navigating and there is a current instruction; otherwise the
\* effect announces nothing.
C13_GateRuleWhenActive ==
    [][/\ PropsStep =>
            (EffectAnnounced' <=>
                /\ isInitialized
                /\ isNavigating'
                /\ currentInstruction' # NoInstruction
                /\ ~isMuted
                /\ \/ distanceToNext' <= 100
                   \/ /\ distanceToNext' <= 500
                      /\ currentInstruction' # lastSpokenInstruction)
       /\ EffectAnnounced' =>
            /\ ~isMuted' /\ distanceToNext' <= 500
            /\ isInitialized' /\ isNavigating'
            /\ currentInstruction' # NoInstruction
      ]_allVars

\* a new instruction was announced between 100 m and 500 m
C13_Witness ==
    /\ ~isMuted /\ isInitialized /\ isNavigating
    /\ distanceToNext = 450
    /\ \E i \in DOMAIN issued :
          /\ issued[i].by = "effect"
          /\ issued[i].instruction = currentInstruction
          /\ issued[i].distance = 450

\* C14: with instruction A announced at 80 m, the update to 60 m with the
\* same instruction announces nothing, and the change to instruction B at
\* 450 m announces exactly once.
C14_NoRepeatNearManeuver ==
    [][/\ ( /\ isInitialized /\ ~isMuted /\ isNavigating /\ isNavigating'
            /\ currentInstruction = "A" /\ currentInstruction' = "A"
            /\ lastSpokenInstruction = "A"
            /\ distanceToNext = 80 /\ distanceToNext' = 60 )
          => issued' = <<>>
       /\ ( /\ isInitialized /\ ~isMuted /\ isNavigating /\ isNavigating'
            /\ currentInstruction = "A" /\ currentInstruction' = "B"
            /\ lastSpokenInstruction = "A"
            /\ distanceToNext' = 450 )
          => Len(issued') = 1
      ]_allVars

\* C15: while the component is muted the speech engine holds no utterance,
\* playing or about to play.
C15_MutedIsSilent == isMuted => speechQueue = <<>>

\* C16: every toggleMute from muted to unmuted with a current instruction
\* issues a speak request for that instruction at the current distance.
C16_UnmuteAnnounces ==
    [][(isMuted /\ ~isMuted' /\ currentInstruction # NoInstruction) =>
          \E i \in DOMAIN issued' :
             /\ issued'[i].by = "toggleMute"
             /\ issued'[i].instruction = currentInstruction
             /\ issued'[i].distance = distanceToNext
      ]_allVars

\* unmuted beyond 500 m, where the distance rule announces nothing
C16_Witness ==
    /\ ~isMuted /\ distanceToNext = 600
    /\ \E i \in DOMAIN issued :
          /\ issued[i].by = "toggleMute"
          /\ issued[i].instruction = currentInstruction
          /\ issued[i].distance = 600

\* ==================================================== location tracking
\* LocationService (part_004:15-128).  startLocationTracking is suspended
\* twice, at requestPermissions() and at Location.watchPositionAsync();
\* stopLocationTracking is synchronous.  The position source delivers to a
\* subscription from the call of watchPositionAsync until its remove().

\* startLocationTracking up to its first await: `if (this.isTracking)
\* return true`, else requestPermissions() is awaited
startLocationTracking ==
    /\ UNCHANGED offLocation
    /\ awaitingPermissions + Cardinality(awaitingWatch) < MaxStartCalls
    /\ awaitingPermissions' =
          IF isTracking THEN awaitingPermissions ELSE awaitingPermissions + 1
    /\ stopSeen' = FALSE
    /\ lastCallback' = NULL
    /\ UNCHANGED <<locationSubscription, isTracking, awaitingWatch,
                   activeSubscriptions, subscriptionsMade>>

\* requestPermissions() settles.  Denied (or failed): the call returns
\* false.  Granted: Location.watchPositionAsync registers a subscription
\* and the call awaits its handle.
permissionsSettle ==
    /\ UNCHANGED offLocation
    /\ awaitingPermissions > 0
    /\ awaitingPermissions' = awaitingPermissions - 1
    /\ \E granted \in BOOLEAN :
          IF granted
          THEN /\ subscriptionsMade < MaxSubscriptions
               /\ subscriptionsMade' = subscriptionsMade + 1
               /\ awaitingWatch' = awaitingWatch \cup {subscriptionsMade + 1}
               /\ activeSubscriptions' =
                     activeSubscriptions \cup {subscriptionsMade + 1}
          ELSE UNCHANGED <<subscriptionsMade, awaitingWatch,
                           activeSubscriptions>>
    /\ lastCallback' = NULL
    /\ UNCHANGED <<locationSubscription, isTracking, stopSeen>>

\* watchPositionAsync resolves: the handle is stored over whatever the
\* field held, and isTracking becomes true
watchSettles ==
    /\ UNCHANGED offLocation
    /\ \E subscription \in awaitingWatch :
          /\ awaitingWatch' = awaitingWatch \ {subscription}
          /\ locationSubscription' = subscription
    /\ isTracking' = TRUE
    /\ lastCallback' = NULL
    /\ UNCHANGED <<awaitingPermissions, activeSubscriptions,
                   subscriptionsMade, stopSeen>>

\* stopLocationTracking: acts only on the handle the field holds
stopLocationTracking ==
    /\ UNCHANGED offLocation
    /\ IF locationSubscription # NULL
       THEN /\ activeSubscriptions' =
                  activeSubscriptions \ {locationSubscription}
            /\ locationSubscription' = NULL
            /\ isTracking' = FALSE
       ELSE UNCHANGED <<activeSubscriptions, locationSubscription, isTracking>>
    /\ stopSeen' = TRUE
    /\ lastCallback' = NULL
    /\ UNCHANGED <<awaitingPermissions, awaitingWatch, subscriptionsMade>>

\* the position source delivers a position to one of its subscriptions
positionCallback ==
    /\ UNCHANGED offLocation
    /\ \E subscription \in activeSubscriptions :
          lastCallback' = subscription
    /\ UNCHANGED <<locationSubscription, isTracking, awaitingPermissions,
                   awaitingWatch, activeSubscriptions, subscriptionsMade,
                   stopSeen>>

LocationNext ==
    \/ startLocationTracking
    \/ permissionsSettle
    \/ watchSettles
    \/ stopLocationTracking
    \/ positionCallback

LocationSpec == Init /\ [][LocationNext]_allVars

\* C17: once stopLocationTracking has run, no start was called after it
\* and every start call has finished, no subscription is active, isTracking
\* is false and no position callback is delivered.
C17_StopUnsubscribes ==
    (stopSeen /\ awaitingPermissions = 0 /\ awaitingWatch = {}) =>
        /\ activeSubscriptions = {}
        /\ ~isTracking
        /\ locationSubscription = NULL
        /\ lastCallback = NULL

\* ============================================================ polyline
\* NavigationService.decodePolyline (NavigationService.ts:222-261) and the
\* encoding it reads: per point the deltas of latitude and longitude in
\* 1e-5 degrees, each zig-zag coded and cut into 5-bit chunks, low chunk
\* first, every chunk but the last with the bit 0x20 set, plus 63.
\* Coordinates are integers in units of 1e-5 degrees (the code divides the
\* accumulated integers by 1e5 when it pushes a point).  The values here
\* stay below 2^31, where the shifts of the code do not wrap.

\* coordinate values: negative, zero, one chunk, two chunks
CoordValues == {-20, -1, 0, 15, 16}
PolyPoints == CoordValues \X CoordValues

RECURSIVE SeqsUpTo(_, _)
SeqsUpTo(S, n) ==
    IF n = 0 THEN {<<>>}
    ELSE LET shorter == SeqsUpTo(S, n - 1)
         IN shorter \cup {Append(q, x) : q \in shorter, x \in S}

\* the encoder: value << 1, inverted when the value is negative
ZigZagEncode(delta) == IF delta < 0 THEN -(2 * delta) - 1 ELSE 2 * delta

RECURSIVE EncodeChunks(_)
EncodeChunks(v) ==
    IF v >= 32
    THEN <<(32 + (v % 32)) + 63>> \o EncodeChunks(v \div 32)
    ELSE <<v + 63>>

EncodeValue(delta) == EncodeChunks(ZigZagEncode(delta))

RECURSIVE EncodeFrom(_, _, _, _)
EncodeFrom(coords, i, lat, lng) ==
    IF i > Len(coords) THEN <<>>
    ELSE EncodeValue(coords[i][1] - lat) \o EncodeValue(coords[i][2] - lng)
            \o EncodeFrom(coords, i + 1, coords[i][1], coords[i][2])

EncodePolyline(coords) == EncodeFrom(coords, 1, 0, 0)

\* one do-while loop of decodePolyline from `index` (1-based here):
\*   byte = encoded.charCodeAt(index++) - 63;
\*   result |= (byte & 0x1f) << shift;  shift += 5;   while (byte >= 0x20)
\* Past the end charCodeAt gives NaN: NaN & 0x1f is 0 and NaN >= 0x20 is
\* false, so the loop ends with what it has.
RECURSIVE ReadChunks(_, _, _, _)
ReadChunks(encoded, index, shift, result) ==
    IF index > Len(encoded)
    THEN [result |-> result, index |-> index + 1]
    ELSE LET byte == encoded[index] - 63
             r == result + (byte % 32) * (2 ^ shift)
         IN IF byte >= 32
            THEN ReadChunks(encoded, index + 1, shift + 5, r)
            ELSE [result |-> r, index |-> index + 1]

\* Mutant: the sign bit is dropped, never applied.
ZigZagDecode_noSign(result) == result \div 2

\* (result & 1) !== 0 ? ~(result >> 1) : (result >> 1)
ZigZagDecode(result) ==
    IF result % 2 # 0 THEN -(result \div 2) - 1 ELSE result \div 2

\* the while loop of decodePolyline
RECURSIVE DecodeFrom(_, _, _, _, _)
DecodeFrom(encoded, index, lat, lng, coordinates) ==
    IF index > Len(encoded) THEN coordinates
    ELSE LET first == ReadChunks(encoded, index, 0, 0)
             newLat == lat + ZigZagDecode(first.result)
             second == ReadChunks(encoded, first.index, 0, 0)
             newLng == lng + ZigZagDecode(second.result)
         IN DecodeFrom(encoded, second.index, newLat, newLng,
                       Append(coordinates, <<newLat, newLng>>))

decodePolyline(encoded) == DecodeFrom(encoded, 1, 0, 0, <<>>)

\* the string ends inside a value: the number of values is odd (a latitude
\* without its longitude) or the last character has the continuation bit
EndsMidValue(encoded) ==
    /\ Len(encoded) > 0
    /\ \/ encoded[Len(encoded)] - 63 >= 32
       \/ Cardinality({i \in 1..Len(encoded) : encoded[i] - 63 < 32}) % 2 = 1

\* a provider path of up to MaxPoints points
PolyDraw ==
    /\ polyCoords \in SeqsUpTo(PolyPoints, MaxPoints)
    /\ polyEncoded = <<>>
    /\ polyDecoded = <<>>
    /\ polyOp = "input"

PolyInit == BaseInit /\ hasCompleteOrderData /\ TrackerIdle /\ PolyDraw

\* the provider encodes the path
EncodePath ==
    /\ UNCHANGED offPoly
    /\ polyOp = "input"
    /\ polyEncoded' = EncodePolyline(polyCoords)
    /\ polyOp' = "encoded"
    /\ UNCHANGED <<polyCoords, polyDecoded>>

\* the string is cut short on its way
TruncatePath ==
    /\ UNCHANGED offPoly
    /\ polyOp = "encoded"
    /\ \E n \in 1..(Len(polyEncoded) - 1) :
          polyEncoded' = SubSeq(polyEncoded, 1, n)
    /\ polyOp' = "truncated"
    /\ UNCHANGED <<polyCoords, polyDecoded>>

\* decodePolyline(encoded)
DecodePath ==
    /\ UNCHANGED offPoly
    /\ polyOp \in {"encoded", "truncated"}
    /\ polyDecoded' = decodePolyline(polyEncoded)
    /\ polyOp' = "decoded"
    /\ UNCHANGED <<polyCoords, polyEncoded>>

PolyNext ==
    \/ EncodePath
    \/ TruncatePath
    \/ DecodePath

PolySpec == PolyInit /\ [][PolyNext]_allVars

\* C18: decodePolyline of a string that ends inside a value returns the
\* empty path.
C18_TruncatedDecodesEmpty ==
    (polyOp = "decoded" /\ EndsMidValue(polyEncoded)) => polyDecoded = <<>>

\* C19: decodePolyline of the encoding of a path returns the path.
C19_RoundTrip ==
    (polyOp = "decoded" /\ polyEncoded = EncodePolyline(polyCoords)) =>
        polyDecoded = polyCoords

\* a path of MaxPoints points with a negative latitude, then a step that
\* takes two chunks, came back from its encoding
C19_Witness ==
    /\ polyOp = "decoded"
    /\ polyEncoded = EncodePolyline(polyCoords)
    /\ Len(polyCoords) >= 2
    /\ polyCoords[1][1] < 0
    /\ polyCoords[2][1] - polyCoords[1][1] >= 16
    /\ polyDecoded = polyCoords

\* ================================================ route-progress tracker
\* The navigation session of MAP_NAVIGATION_SPECIFICATION.md:925-1015.
\* Positions and anchors lie on one meridian, at whole steps 0..MaxCoord:
\* there calculateDistance (haversine) is R * |difference of latitude|, so
\* the order of distances and their ties are those of the differences.

\* Number.MAX_VALUE: above every distance
MAX_VALUE == 1000000

\* calculateDistance(coord1, coord2), in steps
calculateDistance(coord1, coord2) ==
    IF coord1 < coord2 THEN coord2 - coord1 ELSE coord1 - coord2

\* Mutant: an instruction as close as the closest so far replaces it.
RECURSIVE ClosestFrom_lastWins(_, _, _, _, _)
ClosestFrom_lastWins(instructions, coords, i, closest, minDistance) ==
    IF i > Len(instructions) THEN closest
    ELSE LET d == calculateDistance(coords, instructions[i])
         IN IF d <= minDistance
            THEN ClosestFrom_lastWins(instructions, coords, i + 1, i, d)
            ELSE ClosestFrom_lastWins(instructions, coords, i + 1, closest,
                                      minDistance)

\* route.instructions.forEach(...) from instruction i on:
\*   if (distance < minDistance) { minDistance = distance;
\*                                 closestInstruction = instruction; }
RECURSIVE ClosestFrom(_, _, _, _, _)
ClosestFrom(instructions, coords, i, closest, minDistance) ==
    IF i > Len(instructions) THEN closest
    ELSE LET d == calculateDistance(coords, instructions[i])
         IN IF d < minDistance
            THEN ClosestFrom(instructions, coords, i + 1, i, d)
            ELSE ClosestFrom(instructions, coords, i + 1, closest,
                             minDistance)

\* Mutant: the tracker takes instructions[0] to exist.
ClosestInstruction_assumesFirst(instructions, coords) ==
    ClosestFrom(instructions, coords, 1, 1, MAX_VALUE)

\* closestInstruction = route.instructions[0] (undefined, here 0, when the
\* list is empty), minDistance = Number.MAX_VALUE, then the loop
ClosestInstruction(instructions, coords) ==
    ClosestFrom(instructions, coords, 1,
                IF Len(instructions) > 0 THEN 1 ELSE 0, MAX_VALUE)

\* a session whose calculateRoute succeeded (the route is set and the
\* current instruction is instructions[0] || null), or found no route
TrackerDraw ==
    /\ route \in {NoRoute} \cup
          {[calculated |-> TRUE, instructions |-> q] :
              q \in SeqsUpTo(0..MaxCoord, MaxInstructions)}
    /\ trackerInstruction = IF route.instructions # <<>> THEN 1 ELSE 0
    /\ trackerPosition = NULL

TrackerInit == BaseInit /\ hasCompleteOrderData /\ PolyIdle /\ TrackerDraw

\* updateNavigationProgress(location)
updateNavigationProgress ==
    /\ UNCHANGED offTracker
    /\ \E coords \in 0..MaxCoord :
          /\ trackerPosition' = coords
          /\ trackerInstruction' =
                IF ~route.calculated THEN trackerInstruction
                ELSE ClosestInstruction(route.instructions, coords)
    /\ UNCHANGED route

TrackerNext == updateNavigationProgress

TrackerSpec == TrackerInit /\ [][TrackerNext]_allVars

\* C20: after a position update on a route with instructions, the current
\* instruction is one whose anchor is nearest to the position, and every
\* instruction before it is strictly farther.
C20_NearestLowestIndex ==
    (trackerPosition # NULL /\ route.instructions # <<>>) =>
        /\ trackerInstruction \in 1..Len(route.instructions)
        /\ \A j \in 1..Len(route.instructions) :
              /\ calculateDistance(trackerPosition, route.instructions[trackerInstruction])
                    <= calculateDistance(trackerPosition, route.instructions[j])
              /\ j < trackerInstruction =>
                    calculateDistance(trackerPosition, route.instructions[j])
                       > calculateDistance(trackerPosition,
                                           route.instructions[trackerInstruction])

\* two instructions on either side of the position, equally far, and the
\* earlier one is current
C20_Witness ==
    /\ trackerPosition # NULL /\ Len(route.instructions) >= 2
    /\ trackerInstruction \in 1..Len(route.instructions)
    /\ \E j \in 1..Len(route.instructions) :
          /\ j > trackerInstruction
          /\ route.instructions[j] # route.instructions[trackerInstruction]
          /\ calculateDistance(trackerPosition, route.instructions[j])
                = calculateDistance(trackerPosition, route.instructions[trackerInstruction])

\* C21: across the position updates on one route the index of the current
\* instruction never decreases.
C21_IndexNeverGoesBack ==
    [][trackerInstruction' >= trackerInstruction]_allVars

\* =============================================== session: tracker and gate
\* The session hands its currentInstruction to VoiceGuidance (imported at
\* MAP_NAVIGATION_SPECIFICATION.md:917); a position update therefore ends
\* with the component rendered on the instruction the tracker selected.

\* the text of instruction i of the route: neighbours differ
InstructionText(i) ==
    IF i = 0 THEN NoInstruction
    ELSE IF i % 2 = 1 THEN "A" ELSE "B"

\* the tracker's choice for a position; without a route it returns at
\* `if (!route || !route.instructions) return`
TrackedInstruction(coords) ==
    IF ~route.calculated THEN trackerInstruction
    ELSE ClosestInstruction(route.instructions, coords)

\* a position update: updateNavigationProgress, then the render of
\* VoiceGuidance on the new current instruction and its instruction effect
sessionPositionUpdate ==
    /\ UNCHANGED offSession
    /\ \E coords \in 0..MaxCoord, d \in Distances, navigating \in BOOLEAN :
          /\ trackerPosition' = coords
          /\ trackerInstruction' = TrackedInstruction(coords)
          /\ currentInstruction' = InstructionText(TrackedInstruction(coords))
          /\ distanceToNext' = d
          /\ isNavigating' = navigating
          /\ SetService(
                IF <<InstructionText(TrackedInstruction(coords)), d, navigating>>
                      # <<currentInstruction, distanceToNext, isNavigating>>
                THEN instructionEffect(
                        Service, isInitialized, navigating, isMuted,
                        InstructionText(TrackedInstruction(coords)), d,
                        lastSpokenInstruction)
                ELSE Service)
    /\ UNCHANGED <<route, isMuted, isInitialized, initializeVoice>>

\* a session whose route has up to MaxSessionInstructions instructions
SessionDraw ==
    /\ route \in {NoRoute} \cup
          {[calculated |-> TRUE, instructions |-> q] :
              q \in SeqsUpTo(0..MaxCoord, MaxSessionInstructions)}
    /\ trackerInstruction = IF route.instructions # <<>> THEN 1 ELSE 0
    /\ trackerPosition = NULL

SessionInit == BaseInit /\ hasCompleteOrderData /\ PolyIdle /\ SessionDraw

SessionNext ==
    \/ sessionPositionUpdate
    \/ initializeVoiceSettles
    \/ VoiceServiceResumes
    \/ onStart
    \/ onDone

SessionSpec == SessionInit /\ [][SessionNext]_allVars

\* C22: after a position update on a route whose instruction list is
\* empty there is no current instruction, and the voice gate has issued no
\* speak request.
C22_EmptyRouteIsSilent ==
    (trackerPosition # NULL /\ route.calculated /\ route.instructions = <<>>)
        => /\ trackerInstruction = 0
           /\ currentInstruction = NoInstruction
           /\ issued = <<>>
           /\ speechQueue = <<>>

\* a position update at 80 m on an empty route, with voice initialized,
\* navigating and not muted
C22_Witness ==
    /\ trackerPosition # NULL /\ route.calculated /\ route.instructions = <<>>
    /\ isInitialized /\ isNavigating /\ ~isMuted /\ distanceToNext = 80
    /\ trackerInstruction = 0
    /\ issued = <<>>

\* ===================================================== route calculation
\* NavigationService.calculateRoute (NavigationService.ts:47-117) and the
\* session's calculateRoute (MAP_NAVIGATION_SPECIFICATION.md:956-972).
\* A request is what one call meets: whether the API key is configured,
\* whether fetch and response.json() succeed, whether data.status is 'OK',
\* and data.routes (none or one route, given by its instructions' anchors).

ProviderRoutes ==
    {[calculated |-> TRUE, instructions |-> q] :
        q \in SeqsUpTo(0..MaxCoord, MaxSessionInstructions)}

Requests ==
    [apiKey : BOOLEAN, fetched : BOOLEAN, statusOK : BOOLEAN,
     routes : {<<>>} \cup {<<r>> : r \in ProviderRoutes}, settled : {TRUE}]

\* NavigationService.calculateRoute: every throw is caught and gives null
CalculateRouteResult(request) ==
    IF ~request.apiKey THEN NoRoute
    ELSE IF ~request.fetched THEN NoRoute
    ELSE IF ~request.statusOK THEN NoRoute
    ELSE IF Len(request.routes) > 0 THEN request.routes[1]
    ELSE NoRoute

\* Mutant: the session stores whatever the service returned.
RouteAfter_unguarded(routeResult) == routeResult

\* the session: `if (routeResult) { setRoute(routeResult); ... }`
RouteAfter(routeResult) ==
    IF routeResult.calculated THEN routeResult ELSE route

\* ... setCurrentInstruction(routeResult.instructions[0] || null)
InstructionAfter(routeResult) ==
    IF routeResult.calculated
    THEN IF routeResult.instructions # <<>> THEN 1 ELSE 0
    ELSE trackerInstruction

\* the session's calculateRoute up to its await; it returns at once
\* without a current location or a destination
calculateRoute ==
    /\ UNCHANGED offRoute
    /\ routeCalls < MaxRouteCalls
    /\ \E ready \in BOOLEAN :
          routeCalls' = IF ready THEN routeCalls + 1 ELSE routeCalls
    /\ UNCHANGED <<trackerVars, lastRouteRequest, lastRouteResult>>

\* NavigationService.calculateRoute settles and the session continues
calculateRouteSettles ==
    /\ UNCHANGED offRoute
    /\ routeCalls > 0
    /\ routeCalls' = routeCalls - 1
    /\ \E request \in Requests :
          /\ lastRouteRequest' = request
          /\ lastRouteResult' = CalculateRouteResult(request)
          /\ route' = RouteAfter(CalculateRouteResult(request))
          /\ trackerInstruction' =
                InstructionAfter(CalculateRouteResult(request))
    /\ UNCHANGED trackerPosition

RouteInit == BaseInit /\ hasCompleteOrderData /\ PolyIdle /\ TrackerIdle

RouteNext ==
    \/ calculateRoute
    \/ calculateRouteSettles
    \/ updateNavigationProgress

RouteSpec == RouteInit /\ [][RouteNext]_allVars

\* the request the last settled call met is one of the failures: no API
\* key, a failed request, a status other than OK, an empty route list
RequestFailed(request) ==
    \/ ~request.apiKey
    \/ ~request.fetched
    \/ ~request.statusOK
    \/ request.routes = <<>>

\* C23: a calculateRoute call that meets a failure returns null, and the
\* session's route and current instruction stay as they were.
C23_FailureKeepsRoute ==
    [][(routeCalls' < routeCalls /\ RequestFailed(lastRouteRequest')) =>
          /\ lastRouteResult' = NoRoute
          /\ route' = route
          /\ trackerInstruction' = trackerInstruction
      ]_allVars

\* a calculation failed on a provider status while the session held a
\* route with an instruction
C23_Witness ==
    /\ lastRouteRequest.settled
    /\ lastRouteRequest.apiKey /\ lastRouteRequest.fetched
    /\ ~lastRouteRequest.statusOK
    /\ lastRouteResult = NoRoute
    /\ route.calculated /\ route.instructions # <<>>
    /\ trackerInstruction = 1

\* ------------------------------------------ claims: timers and the fare
\* C24: at most one simulation interval is live, and none while the trip is
\* idle or completed or after the screen has unmounted.
C24_OneTimerOnlyInTrip ==
    /\ Cardinality(LiveTimers) <= 1
    /\ (tripState.status \in {"idle", "completed"} \/ ~mounted)
          => LiveTimers = {}

\* the screen went away in the middle of a trip and its interval is gone
C24_Witness ==
    /\ lastOp = "unmount"
    /\ tripState.status = "active"
    /\ LiveTimers = {}

\* C25: in every settled state the displayed fare equals totalFare, and
\* both equal BASE_FARE + distance x FARE_RATE + demandValue +
\* cumulativeTotal.
C25_FareIsTotalFare ==
    /\ fare = totalFare
    /\ totalFare = BASE_FARE + (distance * FARE_RATE) \div 1000
                      + demandValue + cumulativeTotal

\* ------------------------------------- claims: concurrent start and stop
\* C26: at most one position subscription is active, and isTracking is
\* true exactly when LocationService holds a subscription handle.
C26_OneSubscription ==
    /\ Cardinality(activeSubscriptions) <= 1
    /\ isTracking <=> locationSubscription # NULL

\* ------------------------------------------- claims: speech requests
\* C27: the speech engine holds at most one utterance: a speak call has
\* stopped the earlier speech before it hands over its own.
C27_OneUtterance == Len(speechQueue) <= 1

\* C28: a speak request is issued only while the component is initialized.
C28_SpeaksOnlyInitialized == issued # <<>> => isInitialized

\* C29: a toggleMute from muted to unmuted issues at most one speak request.
C29_OneRequestPerUnmute ==
    [][(isMuted /\ ~isMuted') => Len(issued') <= 1]_allVars

\* ------------------------------------------------ RegisterScreen
\* Text is a sequence of one-character strings.
OTP_TIMER == 60
DEMO_OTP == <<"1", "2", "3", "4", "5", "6">>
TITLE_OTP_SENT == "OTP Sent"
TITLE_REGISTERED == "Registration Successful"
\* the countdown is looked at every OtpTickStep seconds
OtpTickStep == 30

Digit == {"0", "1", "2", "3", "4", "5", "6", "7", "8", "9"}
WhiteSpace == {" "}

\* what the user can type into each field
NameInputs == {<<>>, <<" ">>, <<" ", "A", " ">>}
EmailInputs == {<<>>, <<"a", "@", "b">>, <<"a", "@", "b", ".", "c">>}
PhoneInputs == {<<>>,
                <<"8", "1", "2", "3", "4", "5", "6", "7", "8">>,
                <<"9", "-", "1", "2", "3", "4", "5", "6", "7", "8">>}
PasswordInputs == {<<>>, <<"a", "b", "c">>,
                   <<"a", "b", "c", "d", "e", "f">>}
OtpInputs == {<<>>, DEMO_OTP, <<"6", "5", "4", "3", "2", "1">>,
              <<"1", "2", "3", "4", "-", "5">>}
InputsOf(field) ==
    CASE field = "fullName" -> NameInputs
      [] field = "email" -> EmailInputs
      [] field = "phoneNumber" -> PhoneInputs
      [] field = "otp" -> OtpInputs
      [] OTHER -> PasswordInputs

IsDigit(c) == c \in Digit
\* value.replace(/\D/g, '')
StripNonDigits(value) == SelectSeq(value, IsDigit)
\* String.prototype.slice(0, n)
SliceTo(value, n) == SubSeq(value, 1, IF Len(value) < n THEN Len(value) ELSE n)
\* String.prototype.trim
RECURSIVE trim(_)
trim(value) ==
    IF value = <<>> THEN value
    ELSE IF Head(value) \in WhiteSpace THEN trim(Tail(value))
    ELSE IF value[Len(value)] \in WhiteSpace
         THEN trim(SubSeq(value, 1, Len(value) - 1))
    ELSE value

\* [^\s@]+ matches the whole of value[from..to]
PlainRun(value, from, to) ==
    /\ from <= to
    /\ \A k \in from..to : value[k] \notin WhiteSpace \cup {"@"}

\* /^[^\s@]+@[^\s@]+\.[^\s@]+$/
validateEmail(email) ==
    \E at \in 1..Len(email), dot \in 1..Len(email) :
        /\ email[at] = "@"
        /\ email[dot] = "."
        /\ PlainRun(email, 1, at - 1)
        /\ PlainRun(email, at + 1, dot - 1)
        /\ PlainRun(email, dot + 1, Len(email))

\* /^9\d{8,9}$/
validatePhoneNumber(phone) ==
    /\ Len(phone) \in 9..10
    /\ phone[1] = "9"
    /\ \A k \in 2..Len(phone) : IsDigit(phone[k])

validatePassword(password) == Len(password) >= 6

validateOtp(otp) == Len(otp) = 6 /\ \A k \in 1..6 : IsDigit(otp[k])

\* the value handleInputChange stores for a field
CleanInput(form, field, value) ==
    IF field = "phoneNumber"
    THEN IF Len(StripNonDigits(value)) <= 10
         THEN StripNonDigits(value)
         ELSE form[field]
    ELSE IF field = "otp" THEN SliceTo(StripNonDigits(value), 6)
    ELSE value

handleInputChange ==
    \E field \in Fields :
      \E value \in InputsOf(field) :
        /\ formData' = [formData EXCEPT ![field] =
                            CleanInput(formData, field, value)]
        /\ errors' = [errors EXCEPT ![field] = NoError]
        /\ alertShown' = NoAlert
        /\ registerOp' = "handleInputChange"
        /\ UNCHANGED <<isLoading, isOtpSent, otpTimer, authCall, offRegister>>

\* newErrors of handleSendOtp
SendOtpErrors(form) ==
    [f \in Fields \cup {"general"} |->
        CASE f = "fullName" ->
               IF trim(form.fullName) = <<>> THEN "Full name is required"
               ELSE NoError
          [] f = "email" ->
               IF form.email = <<>> THEN "Email is required"
               ELSE IF ~validateEmail(form.email)
                    THEN "Please enter a valid email address"
               ELSE NoError
          [] f = "phoneNumber" ->
               IF form.phoneNumber = <<>> THEN "Phone number is required"
               ELSE IF ~validatePhoneNumber(form.phoneNumber)
                    THEN "Please enter a valid Myanmar phone number (9 digits)"
               ELSE NoError
          [] f = "password" ->
               IF form.password = <<>> THEN "Password is required"
               ELSE IF ~validatePassword(form.password)
                    THEN "Password must be at least 6 characters long"
               ELSE NoError
          [] f = "confirmPassword" ->
               IF form.confirmPassword = <<>>
               THEN "Please confirm your password"
               ELSE IF form.password # form.confirmPassword
                    THEN "Passwords do not match"
               ELSE NoError
          [] OTHER -> NoError]

\* the otp entry of handleRegister's newErrors
OtpError_unsentAllowed(form, sent) ==
    IF form.otp = <<>> THEN "OTP is required"
    ELSE IF ~validateOtp(form.otp) THEN "Please enter a valid 6-digit OTP"
    ELSE NoError

OtpError(form, sent) ==
    IF ~sent THEN "Please request OTP first"
    ELSE IF form.otp = <<>> THEN "OTP is required"
    ELSE IF ~validateOtp(form.otp) THEN "Please enter a valid 6-digit OTP"
    ELSE NoError

\* newErrors of handleRegister
RegisterErrors(form, sent) ==
    [f \in Fields \cup {"general"} |->
        CASE f = "phoneNumber" ->
               IF form.phoneNumber = <<>> THEN "Phone number is required"
               ELSE IF ~validatePhoneNumber(form.phoneNumber)
                    THEN "Please enter a valid Myanmar phone number"
               ELSE NoError
          [] f = "otp" -> OtpError(form, sent)
          [] OTHER -> SendOtpErrors(form)[f]]

\* Object.keys(newErrors).length > 0
HasErrors(newErrors) == \E f \in DOMAIN newErrors : newErrors[f] # NoError

\* the Get OTP button, disabled while isLoading or otpTimer > 0
handleSendOtp ==
    /\ ~isLoading
    /\ otpTimer <= 0
    /\ errors' = SendOtpErrors(formData)
    /\ alertShown' = NoAlert
    /\ IF HasErrors(SendOtpErrors(formData))
       THEN /\ registerOp' = "sendOtpRejected"
            /\ UNCHANGED <<isLoading, authCall>>
       ELSE /\ registerOp' = "handleSendOtp"
            /\ isLoading' = TRUE
            /\ authCall' = [kind |-> "sendOtp", formData |-> formData,
                            isOtpSent |-> isOtpSent]
    /\ UNCHANGED <<formData, isOtpSent, otpTimer, offRegister>>

\* the two-second wait of handleSendOtp is over; a setTimeout promise never
\* rejects, so the catch block is never entered
sendOtpSettles ==
    /\ authCall.kind = "sendOtp"
    /\ isOtpSent' = TRUE
    /\ otpTimer' = OTP_TIMER
    /\ alertShown' = TITLE_OTP_SENT
    /\ isLoading' = FALSE
    /\ authCall' = NoCall
    /\ registerOp' = "sendOtpSettles"
    /\ UNCHANGED <<formData, errors, offRegister>>

\* the Register button, disabled while isLoading
handleRegister ==
    /\ ~isLoading
    /\ errors' = RegisterErrors(formData, isOtpSent)
    /\ alertShown' = NoAlert
    /\ IF HasErrors(RegisterErrors(formData, isOtpSent))
       THEN /\ registerOp' = "registerRejected"
            /\ UNCHANGED <<isLoading, authCall>>
       ELSE /\ registerOp' = "handleRegister"
            /\ isLoading' = TRUE
            /\ authCall' = [kind |-> "register", formData |-> formData,
                            isOtpSent |-> isOtpSent]
    /\ UNCHANGED <<formData, isOtpSent, otpTimer, offRegister>>

\* the two-second wait of handleRegister is over
registerSettles ==
    /\ authCall.kind = "register"
    /\ IF authCall.formData.otp = DEMO_OTP
       THEN /\ alertShown' = TITLE_REGISTERED
            /\ UNCHANGED errors
       ELSE /\ alertShown' = NoAlert
            /\ errors' = [errors EXCEPT
                              !.otp = "Invalid OTP. Please try again."]
    /\ isLoading' = FALSE
    /\ authCall' = NoCall
    /\ registerOp' = "registerSettles"
    /\ UNCHANGED <<formData, isOtpSent, otpTimer, offRegister>>

\* what the countdown shows OtpTickStep seconds later; its interval stops at 0
SecondsLater(t) == IF t > OtpTickStep THEN t - OtpTickStep ELSE 0

otpTick ==
    /\ otpTimer > 0
    /\ otpTimer' = SecondsLater(otpTimer)
    /\ alertShown' = NoAlert
    /\ registerOp' = "otpTick"
    /\ UNCHANGED <<formData, errors, isLoading, isOtpSent, authCall,
                   offRegister>>

RegisterNext ==
    \/ handleInputChange
    \/ handleSendOtp
    \/ sendOtpSettles
    \/ handleRegister
    \/ registerSettles
    \/ otpTick

\* the registration screen alone, the trip screen's order data being settled
RegisterInit == Init /\ hasCompleteOrderData

RegisterSpec == RegisterInit /\ [][RegisterNext]_allVars

\* ------------------------------------------------ claims: registration
\* the five fields handleSendOtp checks are all acceptable
FieldsValid(form) ==
    /\ trim(form.fullName) # <<>>
    /\ validateEmail(form.email)
    /\ validatePhoneNumber(form.phoneNumber)
    /\ validatePassword(form.password)
    /\ form.confirmPassword = form.password

AttemptEnds == {"sendOtpRejected", "sendOtpSettles", "registerRejected",
                "registerSettles"}

\* C30: 'Registration Successful' is shown only for a submission made with
\* isOtpSent true, every field valid and the six-digit demo code entered;
\* isOtpSent becomes true only for a request whose five fields were valid;
\* and every send or register attempt ends with isLoading false.
C30_RegistrationGuarded ==
    [][/\ alertShown' = TITLE_REGISTERED =>
            /\ authCall.kind = "register"
            /\ authCall.isOtpSent /\ isOtpSent
            /\ FieldsValid(authCall.formData)
            /\ Len(authCall.formData.otp) = 6
            /\ authCall.formData.otp = DEMO_OTP
       /\ (isOtpSent' /\ ~isOtpSent) =>
            /\ authCall.kind = "sendOtp"
            /\ FieldsValid(authCall.formData)
       /\ registerOp' \in AttemptEnds => ~isLoading']_allVars

C30_Witness ==
    /\ registerOp = "registerSettles"
    /\ alertShown = TITLE_REGISTERED
    /\ isOtpSent
    /\ ~isLoading

============================================================================
